---------------------------- MODULE Spec2Model ----------------------------
(***************************************************************************)
(* A model of the paper-writing pipeline of agent_app.py (session store,   *)
(* context compaction, the four agents, research_agent_workflow) and of    *)
(* the Flask front end of app.py (background runs that share the           *)
(* 'paper_agent' logger, the log stream generator, the result route).      *)
(*                                                                         *)
(* Texts are TLA+ strings; TLC evaluates Len, \o and SubSeq on them, so    *)
(* the string functions of the program are computed character by           *)
(* character, as the Python code computes them.                            *)
(***************************************************************************)
EXTENDS Integers, Sequences, FiniteSets, TLC

VARIABLES
    ed,         \* the edit-stage check: input, first and second pass
    cc,         \* the compaction check: inputs and output
    hasGenai,   \* _HAS_GENAI: a generative backend is configured
    files,      \* sessions/<id>.json, per session id
    logs,       \* sessions/<id>.log, per session id
    handlers,   \* the runs whose FileHandler is attached to logger 'paper_agent'
    run,        \* per background thread: its position and its locals
    stream,     \* generate() of /stream/<id>: position, last_pos, events sent
    page,       \* what /result/<id> last answered
    alive       \* the serving process is running

fnVars == <<ed, cc>>

appVars == <<hasGenai, files, logs, handlers, run, stream, page, alive>>

vars == <<ed, cc, hasGenai, files, logs, handlers, run, stream, page, alive>>

---------------------------------------------------------------------------
(* Python str helpers                                                      *)

\* s[i-1] in Python terms: the i-th character, as a one-character string.
Char(s, i) == SubSeq(s, i, i)

\* str.isspace() on the characters a TLA+ string can hold.
IsSpace(c) == c \in {" ", "\t", "\n", "\r", "\f"}

\* The line boundaries str.splitlines() splits on (among the same characters).
IsBreak(c) == c \in {"\n", "\r", "\f"}

RECURSIVE LSkip(_, _)
LSkip(s, i) ==
    IF i > Len(s) THEN i
    ELSE IF IsSpace(Char(s, i)) THEN LSkip(s, i + 1) ELSE i

RECURSIVE RSkip(_, _)
RSkip(s, j) ==
    IF j < 1 THEN j
    ELSE IF IsSpace(Char(s, j)) THEN RSkip(s, j - 1) ELSE j

\* str.rstrip()
RStrip(s) == SubSeq(s, 1, RSkip(s, Len(s)))

\* str.strip()
Strip(s) == SubSeq(s, LSkip(s, 1), RSkip(s, Len(s)))

\* h in t
Contains(h, t) ==
    \E i \in 0..(Len(t) - Len(h)) : SubSeq(t, i + 1, i + Len(h)) = h

\* s[:n]
Take(s, n) == SubSeq(s, 1, IF Len(s) < n THEN Len(s) ELSE n)

\* The smallest member of a non-empty set of integers.
Least(S) == CHOOSE i \in S : \A j \in S : i <= j

\* Where the line boundaries of s are: "\r\n" is one boundary, at the "\r".
Breaks(s) ==
    {i \in 1..Len(s) :
        /\ IsBreak(Char(s, i))
        /\ ~(Char(s, i) = "\n" /\ i > 1 /\ Char(s, i - 1) = "\r")}

\* The position after the boundary at b.
AfterBreak(s, b) ==
    IF Char(s, b) = "\r" /\ b < Len(s) /\ Char(s, b + 1) = "\n" THEN b + 2 ELSE b + 1

\* str.splitlines(): a line starts at the start of s and after each boundary,
\* and runs up to the next boundary; a final boundary opens no further line.
SplitLines(s) ==
    LET B      == Breaks(s)
        Starts == {p \in {1} \cup {AfterBreak(s, b) : b \in B} : p <= Len(s)}
        Nth(k) == CHOOSE p \in Starts : Cardinality({q \in Starts : q < p}) = k - 1
    IN [k \in 1..Cardinality(Starts) |->
           SubSeq(s, Nth(k), Least({b \in B : b >= Nth(k)} \cup {Len(s) + 1}) - 1)]

\* sep.join(lines[lo..hi])
RECURSIVE JoinRange(_, _, _, _)
JoinRange(lines, sep, lo, hi) ==
    IF lo > hi THEN ""
    ELSE IF lo = hi THEN lines[lo]
    ELSE LET mid == (lo + hi) \div 2 IN
         JoinRange(lines, sep, lo, mid) \o sep \o JoinRange(lines, sep, mid + 1, hi)

\* sep.join(lines)
Join(lines, sep) == JoinRange(lines, sep, 1, Len(lines))

\* f applied to every character of s[lo..hi].
RECURSIVE MapChars(_, _, _, _)
MapChars(f(_), s, lo, hi) ==
    IF lo > hi THEN ""
    ELSE IF lo = hi THEN f(Char(s, lo))
    ELSE LET mid == (lo + hi) \div 2 IN
         MapChars(f, s, lo, mid) \o MapChars(f, s, mid + 1, hi)

---------------------------------------------------------------------------
(* compact_context                                                         *)

UpperCase == "ABCDEFGHIJKLMNOPQRSTUVWXYZ"
LowerCase == "abcdefghijklmnopqrstuvwxyz"

LowerOf == [c \in {Char(UpperCase, i) : i \in 1..26} |->
               Char(LowerCase, CHOOSE i \in 1..26 : Char(UpperCase, i) = c)]

LowerChar(c) == IF c \in DOMAIN LowerOf THEN LowerOf[c] ELSE c

\* str.lower()
Lower(s) == MapChars(LowerChar, s, 1, Len(s))

RECURSIVE WordEnd(_, _)
WordEnd(s, i) ==
    IF i > Len(s) THEN i
    ELSE IF IsSpace(Char(s, i)) THEN i ELSE WordEnd(s, i + 1)

\* str.split(): the maximal runs of non-whitespace characters.
RECURSIVE Split(_)
Split(s) ==
    LET i == LSkip(s, 1) IN
    IF i > Len(s) THEN <<>>
    ELSE LET j == WordEnd(s, i) IN
         <<SubSeq(s, i, j - 1)>> \o Split(SubSeq(s, j, Len(s)))

\* title_tokens = set(t.lower() for t in title.split())
TitleTokens(title) == {Lower(t) : t \in {Split(title)[i] : i \in 1..Len(Split(title))}}

\* score(p): the title tokens that occur in the lowered title + ' ' + abstract.
Score(title, p) ==
    LET text == Lower(p.title \o " " \o p.abstract) IN
    Cardinality({tok \in TitleTokens(title) : Contains(tok, text)})

\* Where sorted(..., reverse=True) puts p among the already sorted: after every
\* element whose key is not smaller (the sort is stable).
RECURSIVE InsertDescending(_, _, _)
InsertDescending(title, sorted, p) ==
    IF sorted = <<>> THEN <<p>>
    ELSE IF Score(title, Head(sorted)) >= Score(title, p)
         THEN <<Head(sorted)>> \o InsertDescending(title, Tail(sorted), p)
         ELSE <<p>> \o sorted

\* papers_sorted = sorted(papers, key=score, reverse=True)
RECURSIVE SortedPapers(_, _, _)
SortedPapers(title, papers, done) ==
    IF papers = <<>> THEN done
    ELSE SortedPapers(title, Tail(papers), InsertDescending(title, done, Head(papers)))

\* chunk = f"Title: ...\nAuthors: ...\nAbstract: ...\nURL: ...\n\n"
Chunk(p) ==
    "Title: " \o p.title \o "\nAuthors: " \o p.authors \o "\nAbstract: " \o p.abstract
        \o "\nURL: " \o p.url \o "\n\n"

\* The loop body with `continue` in place of `break`.
RECURSIVE AccumulateSkipping(_, _, _, _)
AccumulateSkipping(sorted, i, out, max_chars) ==
    IF i > Len(sorted) THEN out
    ELSE IF Len(out) + Len(Chunk(sorted[i])) > max_chars
         THEN AccumulateSkipping(sorted, i + 1, out, max_chars)
         ELSE AccumulateSkipping(sorted, i + 1, out \o Chunk(sorted[i]), max_chars)

\* for p in papers_sorted: if len(out) + len(chunk) > max_chars: break; out += chunk
RECURSIVE Accumulate(_, _, _, _)
Accumulate(sorted, i, out, max_chars) ==
    IF i > Len(sorted) THEN out
    ELSE IF Len(out) + Len(Chunk(sorted[i])) > max_chars
         THEN out
         ELSE Accumulate(sorted, i + 1, out \o Chunk(sorted[i]), max_chars)

compact_context(title, papers, max_chars) ==
    Accumulate(SortedPapers(title, papers, <<>>), 1, "", max_chars)

DefaultMaxChars == 4000

---------------------------------------------------------------------------
(* EditorAgent                                                             *)

Headers ==
    <<"Abstract:", "Introduction:", "Methods:", "Results:", "Discussion:",
      "Conclusion:", "References:">>

\* The header a pass over Headers prepends when it is missing.
PrependAlways(h, text) == h \o "\n" \o text

PrependIfMissing(h, text) ==
    IF ~Contains(h, text) THEN h \o "\n" \o text ELSE text

\* for h in [...]: if h not in text: text = h + '\n' + text
RECURSIVE AddHeaders(_, _)
AddHeaders(text, i) ==
    IF i > Len(Headers) THEN text
    ELSE AddHeaders(PrependIfMissing(Headers[i], text), i + 1)

\* lines = [l.rstrip() for l in text.splitlines()]
RStripAll(lines) == [i \in 1..Len(lines) |-> RStrip(lines[i])]

\* The loop over lines[lo..hi] with prev_blank, which is true exactly when the
\* line before is blank: a blank line is kept only when the line before is not.
RECURSIVE CollapseBlank(_, _, _)
CollapseBlank(lines, lo, hi) ==
    IF lo > hi THEN <<>>
    ELSE IF lo = hi
         THEN LET prev_blank == lo > 1 /\ lines[lo - 1] = "" IN
              IF lines[lo] = "" /\ prev_blank THEN <<>> ELSE <<lines[lo]>>
    ELSE LET mid == (lo + hi) \div 2 IN
         CollapseBlank(lines, lo, mid) \o CollapseBlank(lines, mid + 1, hi)

EditorRun(paper_text) ==
    LET text  == AddHeaders(Strip(paper_text), 1)
        lines == RStripAll(SplitLines(text))
    IN Join(CollapseBlank(lines, 1, Len(lines)), "\n")

HasAllHeaders(text) == \A i \in 1..Len(Headers) : Contains(Headers[i], text)

---------------------------------------------------------------------------
(* WriterAgent                                                             *)

\* The template without its last section.
WriterFallbackShort(title, context) ==
    "Abstract:\n" \o (IF Strip(Take(context, 800)) # "" THEN Strip(Take(context, 800))
                       ELSE "This paper discusses " \o title)
        \o "\n\nIntroduction:\nThis paper addresses " \o title
        \o ". Context and related work: " \o Take(context, 1500)
        \o "\n\nMethods:\nThis is a simulated demo. Methods would include literature review and synthesis."
        \o "\n\nResults:\nThis notebook produces a synthetic paper draft based on retrieved abstracts."
        \o "\n\nDiscussion:\nInterpretation of results and limitations."
        \o "\n\nConclusion:\nSummary and future work."

\* The fallback template: abstract = context[:800].strip() or (...), the
\* introduction embeds context[:1500], the other sections are fixed text.
WriterFallback(title, context) ==
    LET stripped   == Strip(Take(context, 800))
        abstract   == IF stripped # "" THEN stripped
                      ELSE "This paper discusses " \o title
        intro      == "Introduction:\nThis paper addresses " \o title
                          \o ". Context and related work: " \o Take(context, 1500)
        methods    == "Methods:\nThis is a simulated demo. Methods would include literature review and synthesis."
        results    == "Results:\nThis notebook produces a synthetic paper draft based on retrieved abstracts."
        discussion == "Discussion:\nInterpretation of results and limitations."
        conclusion == "Conclusion:\nSummary and future work."
        references == "References:\n(See arXiv links in context.)"
    IN "Abstract:\n" \o abstract \o "\n\n" \o intro \o "\n\n" \o methods \o "\n\n"
           \o results \o "\n\n" \o discussion \o "\n\n" \o conclusion \o "\n\n"
           \o references

---------------------------------------------------------------------------
(* PlagiarismAgent                                                         *)

Min(x, y) == IF x < y THEN x ELSE y

\* Whether a[i..i+k-1] = b[j..j+k-1].
SameBlock(a, i, b, j, k) == SubSeq(a, i, i + k - 1) = SubSeq(b, j, j + k - 1)

\* The length of the longest block a[alo..ahi] and b[blo..bhi] share.
RECURSIVE LongestLen(_, _, _, _, _, _, _)
LongestLen(a, alo, ahi, b, blo, bhi, k) ==
    IF k = 0 THEN 0
    ELSE IF \E j \in blo..(bhi - k + 1) : \E i \in alo..(ahi - k + 1) :
                SameBlock(a, i, b, j, k)
         THEN k
         ELSE LongestLen(a, alo, ahi, b, blo, bhi, k - 1)

\* difflib's matching blocks: the longest common block (the one starting
\* earliest in a, then earliest in b), then the same to its left and right.
\* The result is the number of matched characters.
RECURSIVE Matches(_, _, _, _, _, _)
Matches(a, alo, ahi, b, blo, bhi) ==
    IF alo > ahi \/ blo > bhi THEN 0
    ELSE LET k == LongestLen(a, alo, ahi, b, blo, bhi,
                             Min(ahi - alo + 1, bhi - blo + 1)) IN
         IF k = 0 THEN 0
         ELSE LET I == {i \in alo..(ahi - k + 1) :
                           \E j \in blo..(bhi - k + 1) : SameBlock(a, i, b, j, k)}
                  i == Least(I)
                  J == {j \in blo..(bhi - k + 1) : SameBlock(a, i, b, j, k)}
                  j == Least(J)
              IN k + Matches(a, alo, i - 1, b, blo, j - 1)
                   + Matches(a, i + k, ahi, b, j + k, bhi)

\* SequenceMatcher(None, a, b).ratio() = 2.0*M/T (1.0 when both are empty),
\* kept as the fraction <<numerator, denominator>>.
Ratio(a, b) ==
    IF Len(a) + Len(b) = 0 THEN <<1, 1>>
    ELSE <<2 * Matches(a, 1, Len(a), b, 1, Len(b)), Len(a) + Len(b)>>

\* n/d rounded to an integer, halves to the even one.
RoundHalfEven(n, d) ==
    LET q == n \div d
        r == n % d
    IN IF 2 * r < d THEN q
       ELSE IF 2 * r > d THEN q + 1
       ELSE IF q % 2 = 0 THEN q ELSE q + 1

\* round(x*100, 2) of the fraction x, in hundredths of a percent; the code
\* rounds the binary float, the model the exact fraction.
Percent2(x) == RoundHalfEven(x[1] * 10000, x[2])

\* max(scores)
RECURSIVE MaxScore(_)
MaxScore(scores) ==
    IF Len(scores) = 1 THEN scores[1]
    ELSE LET m == MaxScore(Tail(scores)) IN
         IF m[1] * scores[1][2] > scores[1][1] * m[2] THEN m ELSE scores[1]

\* The fraction x in millionths (rounded down). The code computes in binary
\* floating point; the model keeps six decimal places of every score it sums.
Micro(x) ==
    LET n == x[1] * 1000 IN
    (n \div x[2]) * 1000 + ((n % x[2]) * 1000) \div x[2]

\* sum(scores), in millionths
RECURSIVE SumScores(_)
SumScores(scores) ==
    IF scores = <<>> THEN 0 ELSE Micro(Head(scores)) + SumScores(Tail(scores))

FlagThreshold == <<6, 10>>

\* PlagiarismAgent.run: the report. max_similarity and avg_similarity are in
\* hundredths of a percent.
PlagiarismRun(paper_text, source_abstracts) ==
    LET scores    == [i \in 1..Len(source_abstracts) |->
                         Ratio(paper_text, source_abstracts[i])]
        max_score == IF scores # <<>> THEN MaxScore(scores) ELSE <<0, 1>>
        avg_micro == IF scores # <<>> THEN SumScores(scores) \div Len(scores) ELSE 0
    IN [max_similarity |-> Percent2(max_score),
        avg_similarity |-> RoundHalfEven(avg_micro, 100),
        flags |-> IF max_score[1] * FlagThreshold[2] > FlagThreshold[1] * max_score[2]
                  THEN <<"High similarity with source abstract">>
                  ELSE <<>>]

---------------------------------------------------------------------------
(* ResearchAgent                                                           *)

NewlineToSpace(c) == IF c = "\n" THEN " " ELSE c

\* r.summary.replace('\n', ' ')
ReplaceNewlines(s) == MapChars(NewlineToSpace, s, 1, Len(s))

\* One result of the search backend as the dict ResearchAgent.run appends.
PaperOf(r) ==
    [title    |-> r.title,
     authors  |-> Join(r.authors, ", "),
     abstract |-> ReplaceNewlines(r.summary),
     url      |-> r.entry_id]

\* What arxiv.Search(...).results() does for a query: it raises, or it yields
\* at most max_results of the entries the index ranks for the query.
MaxResults == 2

Ranked ==
    <<[title |-> "Gnn", authors |-> <<"A", "B">>, summary |-> "road\ntraffic",
       entry_id |-> "u1"],
      [title |-> "Traffic", authors |-> <<"C">>, summary |-> "", entry_id |-> "u2"],
      [title |-> "zz", authors |-> <<>>, summary |-> "x", entry_id |-> "u3"]>>

SearchOutcomes(max_results) ==
    {[ok |-> FALSE, results |-> <<>>]}
        \cup {[ok |-> TRUE, results |-> SubSeq(Ranked, 1, k)] :
                 k \in 0..Min(max_results, Len(Ranked))}

\* ResearchAgent.run: the papers returned; [] when the backend raised.
ResearchRun(outcome) ==
    IF outcome.ok THEN [i \in 1..Len(outcome.results) |-> PaperOf(outcome.results[i])]
    ELSE <<>>

\* What genai.GenerativeModel('gemini-pro').generate_content(prompt).text does
\* when a backend is configured: it raises, or it is some text.
GenTexts == {"Graphs help.  \n\n\nAbstract: none"}

GenOutcomes(configured) ==
    IF configured
    THEN {[used |-> TRUE, ok |-> FALSE, text |-> ""]}
             \cup {[used |-> TRUE, ok |-> TRUE, text |-> t] : t \in GenTexts}
    ELSE {[used |-> FALSE, ok |-> FALSE, text |-> ""]}

\* WriterAgent.run: the backend's text verbatim, else the template.
WriterRun(title, context, gen) ==
    IF gen.used /\ gen.ok THEN gen.text ELSE WriterFallback(title, context)

---------------------------------------------------------------------------
(* Sessions, the shared logger and research_agent_workflow                 *)

Ids == {"a", "b"}

TitleA == "GNN traffic"

TitleB == "Road safety"

\* The title of an earlier, finished run for id "a".
PriorTitle == "Old title"

Runs == {1, 2}

\* d[k] = v on a dict
Put(d, k, v) == [x \in (DOMAIN d) \cup {k} |-> IF x = k THEN v ELSE d[x]]

EmptyDict == <<>>

ExcerptChars == 2000

NoFile == [state |-> "absent", data |-> EmptyDict, writer |-> 0]

\* A log line; `by` is the thread that made the logging call.
Line(r, msg) == [by |-> r, msg |-> msg]

RECURSIVE Repeat(_, _)
Repeat(x, n) == IF n = 0 THEN <<>> ELSE <<x>> \o Repeat(x, n - 1)

RECURSIVE EmitTo(_, _, _)
EmitTo(lines, new, n) ==
    IF new = <<>> THEN lines
    ELSE EmitTo(lines \o Repeat(Head(new), n), Tail(new), n)

\* logger.info(...) and the like, once per line of `new`: every handler
\* attached to 'paper_agent' appends the line to its file, whichever thread
\* logs.
Emit(lg, hs, rn, new) ==
    [id \in Ids |->
        [lg[id] EXCEPT !.lines =
            EmitTo(@, new, Cardinality({h \in hs : rn[h].sid = id}))]]

\* session['steps'].append(step)
AppendStep(session, step) == Put(session, "steps", Append(session["steps"], step))

\* load_session(session_id) or {'title': title, 'steps': []}
LoadedOrNew(f, title) ==
    IF f.state = "complete" /\ f.data # EmptyDict THEN f.data
    ELSE [title |-> title, steps |-> <<>>]

\* The stage functions on the inputs the runs below can meet, evaluated once.
Titles == {TitleA, TitleB, PriorTitle}

PaperLists == {ResearchRun(o) : o \in SearchOutcomes(MaxResults)}

ContextOf ==
    [t \in Titles |-> [ps \in PaperLists |-> compact_context(t, ps, DefaultMaxChars)]]

DraftOf ==
    [t \in Titles |-> [ps \in PaperLists |-> [gen \in GenOutcomes(TRUE) \cup GenOutcomes(FALSE) |->
        WriterRun(t, ContextOf[t][ps], gen)]]]

DraftTexts ==
    {DraftOf[t][ps][gen] : t \in Titles, ps \in PaperLists,
                           gen \in GenOutcomes(TRUE) \cup GenOutcomes(FALSE)}

EditedOf == [d \in DraftTexts |-> EditorRun(d)]

ReportOf ==
    [e \in {EditedOf[d] : d \in DraftTexts} |->
        [abstracts \in {[i \in 1..Len(ps) |-> ps[i].abstract] : ps \in PaperLists} |->
            PlagiarismRun(e, abstracts)]]

\* Lines 185-189: the research stage and its step record.
AfterResearch(rr, r, outcome) ==
    LET papers == ResearchRun(outcome) IN
    [rr EXCEPT !.papers = papers,
               !.session = AppendStep(@, [step |-> "research", count |-> Len(papers),
                                          by |-> r]),
               !.pc = "researched"]

\* Line 191
AfterCompact(rr) ==
    [rr EXCEPT !.context = ContextOf[rr.title][rr.papers],
               !.pc = "compacted"]

\* Lines 193-197; `generated` notes that the backend's text was returned.
AfterDraft(rr, r, gen) ==
    [rr EXCEPT !.draft = DraftOf[rr.title][rr.papers][gen],
               !.generated = gen.used /\ gen.ok,
               !.session = AppendStep(@, [step |-> "draft", by |-> r]),
               !.pc = "drafted"]

\* Lines 199-203 without the step record.
AfterEditUnrecorded(rr, r) ==
    [rr EXCEPT !.edited = EditedOf[rr.draft], !.pc = "edited"]

\* Lines 199-203
AfterEdit(rr, r) ==
    [rr EXCEPT !.edited = EditedOf[rr.draft],
               !.session = AppendStep(@, [step |-> "edit", by |-> r]),
               !.pc = "edited"]

\* Lines 205-217: the similarity report, its step record, and the result
\* fields of the session.
AfterScore(rr, r) ==
    LET abstracts == [i \in 1..Len(rr.papers) |-> rr.papers[i].abstract]
        report    == ReportOf[rr.edited][abstracts]
        s1 == AppendStep(rr.session, [step |-> "plagiarism", by |-> r])
        s2 == Put(s1, "metrics", [num_papers |-> Len(rr.papers)])
        s3 == Put(s2, "papers", rr.papers)
        s4 == Put(s3, "draft", Take(rr.draft, ExcerptChars))
        s5 == Put(s4, "edited", Take(rr.edited, ExcerptChars))
        s6 == Put(s5, "plagiarism", report)
    IN [rr EXCEPT !.report = report, !.session = s6, !.pc = "scored"]

NewRun(title, sid, max_results, pc) ==
    [pc |-> pc, title |-> title, sid |-> sid, max_results |-> max_results,
     session |-> EmptyDict, papers |-> <<>>, context |-> "", draft |-> "",
     edited |-> "", report |-> EmptyDict, generated |-> FALSE,
     reads |-> 0, writes |-> 0]

\* The session that earlier run left in sessions/a.json (its search had
\* failed and no generative backend was configured).
PriorSession ==
    LET r0 == [NewRun(PriorTitle, "a", MaxResults, "loaded") EXCEPT
                  !.session = LoadedOrNew(NoFile, PriorTitle)]
        r1 == AfterResearch(r0, 0, [ok |-> FALSE, results |-> <<>>])
        r2 == AfterDraft(AfterCompact(r1), 0, [used |-> FALSE, ok |-> FALSE, text |-> ""])
    IN AfterScore(AfterEdit(r2, 0), 0).session

PriorFile == [state |-> "complete", data |-> PriorSession, writer |-> 0]

PriorLog ==
    [exists |-> TRUE,
     lines  |-> <<Line(0, "ResearchAgent searching arXiv for query"),
                  Line(0, "ResearchAgent failed"),
                  Line(0, "WriterAgent generating draft"),
                  Line(0, "EditorAgent editing paper (lightweight edits)"),
                  Line(0, "PlagiarismAgent comparing paper against source abstracts"),
                  Line(0, "Saved session"),
                  Line(0, "Workflow complete")>>]

NoLog == [exists |-> FALSE, lines |-> <<>>]

Sid(r) == run[r].sid

\* app.run / api_run start the thread; _background_run attaches the handler,
\* which opens sessions/<id>.log for appending.
Start(r) ==
    /\ alive
    /\ run[r].pc = "idle"
    /\ handlers' = handlers \cup {r}
    /\ logs' = [logs EXCEPT ![Sid(r)].exists = TRUE]
    /\ run' = [run EXCEPT ![r].pc = "attached"]
    /\ UNCHANGED <<fnVars, hasGenai, files, stream, page, alive>>

\* Line 183. json.load raises on a file that holds no complete document.
Load(r) ==
    /\ alive
    /\ run[r].pc = "attached"
    /\ LET f == files[Sid(r)] IN
       IF f.state \in {"empty", "partial"}
       THEN run' = [run EXCEPT ![r].pc = "raised", ![r].reads = @ + 1]
       ELSE run' = [run EXCEPT ![r].session = LoadedOrNew(f, run[r].title),
                               ![r].reads = @ + 1,
                               ![r].pc = "loaded"]
    /\ UNCHANGED <<fnVars, hasGenai, files, logs, handlers, stream, page, alive>>

Research(r) ==
    /\ alive
    /\ run[r].pc = "loaded"
    /\ \E outcome \in SearchOutcomes(run[r].max_results) :
         /\ run' = [run EXCEPT ![r] = AfterResearch(@, r, outcome)]
         /\ logs' = Emit(logs, handlers, run,
                         <<Line(r, "ResearchAgent searching arXiv for query"),
                           Line(r, IF outcome.ok THEN "ResearchAgent found papers"
                                   ELSE "ResearchAgent failed")>>)
    /\ UNCHANGED <<fnVars, hasGenai, files, handlers, stream, page, alive>>

CompactContext(r) ==
    /\ alive
    /\ run[r].pc = "researched"
    /\ run' = [run EXCEPT ![r] = AfterCompact(@)]
    /\ UNCHANGED <<fnVars, hasGenai, files, logs, handlers, stream, page, alive>>

Draft(r) ==
    /\ alive
    /\ run[r].pc = "compacted"
    /\ \E gen \in GenOutcomes(hasGenai) :
         /\ run' = [run EXCEPT ![r] = AfterDraft(@, r, gen)]
         /\ logs' = Emit(logs, handlers, run,
                         <<Line(r, "WriterAgent generating draft")>>
                             \o (IF gen.used /\ ~gen.ok
                                 THEN <<Line(r, "GenAI write failed, falling back to template")>>
                                 ELSE <<>>))
    /\ UNCHANGED <<fnVars, hasGenai, files, handlers, stream, page, alive>>

Edit(r) ==
    /\ alive
    /\ run[r].pc = "drafted"
    /\ run' = [run EXCEPT ![r] = AfterEdit(@, r)]
    /\ logs' = Emit(logs, handlers, run,
                    <<Line(r, "EditorAgent editing paper (lightweight edits)")>>)
    /\ UNCHANGED <<fnVars, hasGenai, files, handlers, stream, page, alive>>

Score_(r) ==
    /\ alive
    /\ run[r].pc = "edited"
    /\ run' = [run EXCEPT ![r] = AfterScore(@, r)]
    /\ logs' = Emit(logs, handlers, run,
                    <<Line(r, "PlagiarismAgent comparing paper against source abstracts")>>)
    /\ UNCHANGED <<fnVars, hasGenai, files, handlers, stream, page, alive>>

\* save_session, line 38: open(path, 'w') creates or truncates the file.
SaveOpen(r) ==
    /\ alive
    /\ run[r].pc = "scored"
    /\ files' = [files EXCEPT ![Sid(r)] =
                    [state |-> "empty", data |-> EmptyDict, writer |-> r]]
    /\ run' = [run EXCEPT ![r].pc = "opened", ![r].writes = @ + 1]
    /\ UNCHANGED <<fnVars, hasGenai, logs, handlers, stream, page, alive>>

\* Line 38 when the open fails (the storage error of a full or read-only disk).
SaveOpenFails(r) ==
    /\ alive
    /\ run[r].pc = "scored"
    /\ run' = [run EXCEPT ![r].pc = "raised"]
    /\ UNCHANGED <<fnVars, hasGenai, files, logs, handlers, stream, page, alive>>

\* Line 39, part way: json.dump writes through the file's buffer, which is
\* flushed whenever it fills, so a first part of the document can be on disk
\* before the rest.
SaveFlush(r) ==
    /\ alive
    /\ run[r].pc = "opened"
    /\ files' = [files EXCEPT ![Sid(r)] =
                    [state |-> "partial", data |-> run[r].session, writer |-> r]]
    /\ run' = [run EXCEPT ![r].pc = "flushed"]
    /\ UNCHANGED <<fnVars, hasGenai, logs, handlers, stream, page, alive>>

\* Line 39 to the end of the with block: the whole document is on disk.
SaveClose(r) ==
    /\ alive
    /\ run[r].pc \in {"opened", "flushed"}
    /\ files' = [files EXCEPT ![Sid(r)] =
                    [state |-> "complete", data |-> run[r].session, writer |-> r]]
    /\ run' = [run EXCEPT ![r].pc = "closed"]
    /\ UNCHANGED <<fnVars, hasGenai, logs, handlers, stream, page, alive>>

\* Line 40
LogSaved(r) ==
    /\ alive
    /\ run[r].pc = "closed"
    /\ run' = [run EXCEPT ![r].pc = "saved"]
    /\ logs' = Emit(logs, handlers, run, <<Line(r, "Saved session")>>)
    /\ UNCHANGED <<fnVars, hasGenai, files, handlers, stream, page, alive>>

\* Lines 219-220
LogComplete(r) ==
    /\ alive
    /\ run[r].pc = "saved"
    /\ run' = [run EXCEPT ![r].pc = "returned"]
    /\ logs' = Emit(logs, handlers, run, <<Line(r, "Workflow complete")>>)
    /\ UNCHANGED <<fnVars, hasGenai, files, handlers, stream, page, alive>>

\* _background_run's finally: _detach_handler, after a return or a raise.
Detach(r) ==
    /\ alive
    /\ run[r].pc \in {"returned", "raised"}
    /\ handlers' = handlers \ {r}
    /\ run' = [run EXCEPT ![r].pc = IF @ = "returned" THEN "done" ELSE "failed"]
    /\ UNCHANGED <<fnVars, hasGenai, files, logs, stream, page, alive>>

\* The process ends: its daemon threads and generators end where they are.
Shutdown ==
    /\ alive
    /\ alive' = FALSE
    /\ UNCHANGED <<fnVars, hasGenai, files, logs, handlers, run, stream, page>>

---------------------------------------------------------------------------
(* app.py: the log stream and the result route                             *)

Done == Line(0, "__DONE__")

\* generate(), lines 84-91: everything in the log file from last_pos on.
StreamRead ==
    /\ alive
    /\ stream.pc = "read"
    /\ LET lg == logs[stream.sid] IN
       IF lg.exists /\ Len(lg.lines) > stream.last_pos
       THEN stream' = [stream EXCEPT
                          !.events = @ \o SubSeq(lg.lines, stream.last_pos + 1, Len(lg.lines)),
                          !.last_pos = Len(lg.lines),
                          !.pc = "check"]
       ELSE stream' = [stream EXCEPT !.pc = "check"]
    /\ UNCHANGED <<fnVars, hasGenai, files, logs, handlers, run, page, alive>>

\* generate(), lines 93-97: the sentinel once sessions/<id>.json exists, else
\* sleep and poll again.
StreamCheck ==
    /\ alive
    /\ stream.pc = "check"
    /\ IF files[stream.sid].state # "absent"
       THEN stream' = [stream EXCEPT !.events = Append(@, Done), !.pc = "done"]
       ELSE stream' = [stream EXCEPT !.pc = "read"]
    /\ UNCHANGED <<fnVars, hasGenai, files, logs, handlers, run, page, alive>>

\* result(session_id): a redirect to the status page while the file does not
\* exist, else json.load of it (which raises on an incomplete document) and
\* the rendered page.
Result ==
    /\ alive
    /\ page.pc = "on"
    /\ LET f == files[page.sid] IN
       page' = [page EXCEPT
                   !.out = CASE f.state = "absent" -> "redirect"
                             [] f.state = "complete" -> "render"
                             [] OTHER -> "error",
                   !.seen = f.state,
                   !.session = IF f.state = "complete" THEN f.data ELSE EmptyDict]
    /\ UNCHANGED <<fnVars, hasGenai, files, logs, handlers, run, stream, alive>>

---------------------------------------------------------------------------
(* Specifications of the application                                       *)

FnOff == ed = [pc |-> "off"] /\ cc = [pc |-> "off"]

NoStream == [sid |-> "a", pc |-> "off", last_pos |-> 0, events |-> <<>>]

NoPage == [sid |-> "a", pc |-> "off", out |-> "none", seen |-> "none", session |-> EmptyDict]

\* Two background runs, the first for id "a", the second for "a" or "b"; id
\* "a" may hold the session and log of an earlier run. No generative backend
\* is configured and the storage does not fail.
InitRuns ==
    /\ FnOff
    /\ alive = TRUE
    /\ hasGenai = FALSE
    /\ handlers = {}
    /\ \E prior \in BOOLEAN :
         /\ files = [id \in Ids |-> IF prior /\ id = "a" THEN PriorFile ELSE NoFile]
         /\ logs = [id \in Ids |-> IF prior /\ id = "a" THEN PriorLog ELSE NoLog]
    /\ \E sid2 \in Ids :
         run = [r \in Runs |-> IF r = 1 THEN NewRun(TitleA, "a", 1, "idle")
                               ELSE NewRun(TitleB, sid2, 1, "idle")]
    /\ stream = NoStream
    /\ page = NoPage

RunStep(r) ==
    \/ Start(r)
    \/ Load(r)
    \/ Research(r)
    \/ CompactContext(r)
    \/ Draft(r)
    \/ Edit(r)
    \/ Score_(r)
    \/ SaveOpen(r)
    \/ SaveClose(r)
    \/ LogSaved(r)
    \/ LogComplete(r)
    \/ Detach(r)

NextRuns == \E r \in Runs : RunStep(r)

SpecRuns == InitRuns /\ [][NextRuns]_vars

\* One background run for id "a" with every answer the search and the
\* generative backend can give, in a process that may end at any moment.
InitPipe ==
    /\ FnOff
    /\ alive = TRUE
    /\ hasGenai \in BOOLEAN
    /\ handlers = {}
    /\ \E prior \in BOOLEAN :
         /\ files = [id \in Ids |-> IF prior /\ id = "a" THEN PriorFile ELSE NoFile]
         /\ logs = [id \in Ids |-> IF prior /\ id = "a" THEN PriorLog ELSE NoLog]
    /\ \E title \in {TitleA, TitleB} :
         run = [r \in Runs |-> IF r = 1 THEN NewRun(title, "a", MaxResults, "idle")
                               ELSE NewRun(TitleB, "b", MaxResults, "off")]
    /\ stream = NoStream
    /\ page = NoPage

\* The ways a save goes wrong or is seen part way.
SaveFault == \E r \in Runs : SaveOpenFails(r) \/ SaveFlush(r)

NextPipe == NextRuns \/ SaveFault \/ Shutdown

SpecPipe == InitPipe /\ [][NextPipe]_vars

\* One background run for id "a", a viewer streaming the log of "a" and
\* requests for the result page of "a".
InitView ==
    /\ FnOff
    /\ alive = TRUE
    /\ hasGenai = FALSE
    /\ handlers = {}
    /\ \E prior \in BOOLEAN :
         /\ files = [id \in Ids |-> IF prior /\ id = "a" THEN PriorFile ELSE NoFile]
         /\ logs = [id \in Ids |-> IF prior /\ id = "a" THEN PriorLog ELSE NoLog]
    /\ run = [r \in Runs |-> IF r = 1 THEN NewRun(TitleA, "a", 1, "idle")
                             ELSE NewRun(TitleB, "b", 1, "off")]
    /\ stream = [NoStream EXCEPT !.pc = "read"]
    /\ page = [NoPage EXCEPT !.pc = "on"]

NextView == NextPipe \/ StreamRead \/ StreamCheck \/ Result

SpecView == InitView /\ [][NextView]_vars

---------------------------------------------------------------------------
(* Properties of the application                                           *)

Stages == <<"research", "draft", "edit", "plagiarism">>

StepNames(steps) == [i \in 1..Len(steps) |-> steps[i].step]

\* The step records run r has appended to its session so far.
OwnSteps(r) ==
    LET ByR(step) == step.by = r IN
    IF "steps" \in DOMAIN run[r].session
    THEN SelectSeq(run[r].session["steps"], ByR)
    ELSE <<>>

\* The four step records of one pass by run r that found n papers.
OnePass(r, n) ==
    <<[step |-> "research", count |-> n, by |-> r], [step |-> "draft", by |-> r],
      [step |-> "edit", by |-> r], [step |-> "plagiarism", by |-> r]>>

Started(r) == run[r].pc \notin {"off", "idle"}

\* save_session has written the whole document.
Saved(r) == run[r].pc \in {"closed", "saved", "returned", "done"}

Stopped(r) == run[r].pc \in {"raised", "failed"}

\* The run is at or past the given position of the workflow.
Past(r, pcs) == ~Stopped(r) /\ Started(r) /\ run[r].pc \notin pcs

\* The file of r's id holds the document r wrote.
HoldsSaveOf(r) ==
    /\ Saved(r)
    /\ files[Sid(r)].state = "complete"
    /\ files[Sid(r)].writer = r

\* An earlier run had used the id: its lines are in the log.
HadPrior(id) == \E i \in 1..Len(logs[id].lines) : logs[id].lines[i].by = 0

ZeroReport == [max_similarity |-> 0, avg_similarity |-> 0, flags |-> <<>>]

\* C1: after a successful run the session file of its id holds exactly one
\* pass (one step record per stage, in order) and the title of that run,
\* whether or not a session file for the id existed before.
SessionIsOnePass ==
    \A r \in Runs :
        HoldsSaveOf(r) =>
            /\ StepNames(files[Sid(r)].data["steps"]) = Stages
            /\ files[Sid(r)].data["title"] = run[r].title

\* C2: for a run on an id no earlier run had used, the stream emits the
\* sentinel, and the result route renders, only once that run has completed
\* its save_session.
DoneOnlyAfterSave ==
    \A r \in Runs :
        (Started(r) /\ ~HadPrior(Sid(r)) /\ ~Saved(r)) =>
            /\ (stream.sid = Sid(r) => stream.pc # "done")
            /\ (page.sid = Sid(r) => page.out # "render")

\* C3: a reader of a session file (the result route, load_session of a run)
\* never finds it empty or partly written.
NoTornRead ==
    /\ page.seen \notin {"empty", "partial"}
    /\ \A r \in Runs : ~(Stopped(r) /\ run[r].session = EmptyDict /\ run[r].reads = 1)

\* C4: the log file of an id holds only lines logged by runs for that id.
LogHoldsOwnLines ==
    \A id \in Ids : \A i \in 1..Len(logs[id].lines) :
        LET by == logs[id].lines[i].by IN by = 0 \/ Sid(by) = id

\* C5: once two runs with distinct ids have both completed, the session file
\* of each holds exactly the step records, the papers and the report of its
\* own run.
IndependentArtifacts ==
    (Sid(1) # Sid(2) /\ run[1].pc = "done" /\ run[2].pc = "done") =>
        \A r \in Runs :
            LET s == files[Sid(r)].data IN
            /\ s["steps"] = OnePass(r, Len(run[r].papers))
            /\ s["papers"] = run[r].papers
            /\ s["plagiarism"] = run[r].report

\* No step record of a run is in the session file of another id.
NoForeignSteps ==
    \A id \in Ids :
        "steps" \in DOMAIN files[id].data =>
            \A i \in 1..Len(files[id].data["steps"]) :
                LET by == files[id].data["steps"][i].by IN by = 0 \/ Sid(by) = id

PreSave ==
    {"idle", "attached", "loaded", "researched", "compacted", "drafted", "edited",
     "scored"}

StepsDone(pc) ==
    CASE pc \in {"idle", "attached", "loaded"} -> 0
      [] pc \in {"researched", "compacted"} -> 1
      [] pc = "drafted" -> 2
      [] pc = "edited" -> 3
      [] OTHER -> 4

\* C6: a run reads the session once, before the first stage; its stages run
\* in the order search, compaction, draft, edit, scoring, each on the output
\* of the one before and each appending its step record; and it writes the
\* session file once, after the fourth record. Until then the file of its id
\* is as it was, so a run that stops part way leaves it untouched.
StagesInOrderOneWrite ==
    \A r \in Runs :
        run[r].pc # "off" =>
            LET rr  == run[r]
                own == StepNames(OwnSteps(r))
            IN
            /\ own = SubSeq(Stages, 1, Len(own))
            /\ ~Stopped(r) => Len(own) = StepsDone(rr.pc)
            /\ rr.reads = IF rr.pc \in {"idle", "attached"} THEN 0 ELSE 1
            /\ rr.writes = IF rr.pc \in PreSave \/ Stopped(r) THEN 0 ELSE 1
            /\ (Len(own) < 4 \/ rr.pc \in PreSave \/ Stopped(r)) =>
                   /\ files[Sid(r)].writer # r
                   /\ files[Sid(r)] \in {NoFile, PriorFile}
            /\ IF Past(r, {"attached", "loaded", "researched"})
               THEN rr.context = compact_context(rr.title, rr.papers, DefaultMaxChars)
               ELSE Stopped(r) \/ rr.context = ""
            /\ Past(r, {"attached", "loaded", "researched", "compacted"})
                   \/ Stopped(r) \/ rr.draft = ""
            /\ IF Past(r, {"attached", "loaded", "researched", "compacted", "drafted"})
               THEN rr.edited = EditorRun(rr.draft)
               ELSE Stopped(r) \/ rr.edited = ""
            /\ IF Past(r, {"attached", "loaded", "researched", "compacted", "drafted",
                           "edited"})
               THEN rr.report =
                        PlagiarismRun(rr.edited,
                                      [i \in 1..Len(rr.papers) |-> rr.papers[i].abstract])
               ELSE Stopped(r) \/ rr.report = EmptyDict

\* The process ended while a run for an id with an earlier session was
\* between its edit and scoring stages; the earlier session is still there.
StagesInOrderOneWriteWitness ==
    /\ ~alive
    /\ run[1].pc = "edited"
    /\ Len(OwnSteps(1)) = 3
    /\ files["a"] = PriorFile

\* C9 as stated: when the search yields no candidates, the run persists a
\* session with num_papers 0, a draft that contains all seven headers and the
\* zero similarity report.
ZeroCandidatesDraftHasHeaders ==
    \A r \in Runs :
        (HoldsSaveOf(r) /\ run[r].papers = <<>>) =>
            LET s == files[Sid(r)].data IN
            /\ s["metrics"].num_papers = 0
            /\ HasAllHeaders(s["draft"])
            /\ s["plagiarism"] = ZeroReport

\* C9 as amended: when the search yields no candidates no stage raises;
\* compaction returns the empty string, the draft contains all seven headers
\* whenever the template produced it (else it is the backend's text), the
\* edited text contains all seven headers and the report is the zero report;
\* a run that completes its save persists num_papers 0, that report and the
\* first 2000 characters of the draft and of the edited text.
ZeroCandidatesFallback ==
    \A r \in Runs :
        (Started(r) /\ run[r].papers = <<>>) =>
            LET rr == run[r] IN
            /\ Stopped(r) => (rr.session = EmptyDict \/ Len(OwnSteps(r)) = 4)
            /\ Past(r, {"attached", "loaded", "researched"}) => rr.context = ""
            /\ Past(r, {"attached", "loaded", "researched", "compacted"}) =>
                   /\ rr.draft = IF rr.generated THEN CHOOSE t \in GenTexts : TRUE
                                 ELSE WriterFallback(rr.title, "")
                   /\ ~rr.generated => (HasAllHeaders(rr.draft) /\ rr.draft # "")
            /\ Past(r, {"attached", "loaded", "researched", "compacted", "drafted"}) =>
                   HasAllHeaders(rr.edited)
            /\ Past(r, {"attached", "loaded", "researched", "compacted", "drafted",
                        "edited"}) => rr.report = ZeroReport
            /\ HoldsSaveOf(r) =>
                   LET s == files[Sid(r)].data IN
                   /\ s["metrics"].num_papers = 0
                   /\ s["plagiarism"] = ZeroReport
                   /\ s["draft"] = Take(rr.draft, ExcerptChars)
                   /\ s["edited"] = Take(rr.edited, ExcerptChars)

\* A run whose search raised and whose configured backend failed has saved
\* its session.
ZeroCandidatesFallbackWitness ==
    /\ run[1].pc = "done"
    /\ run[1].papers = <<>>
    /\ hasGenai
    /\ ~run[1].generated
    /\ \E i \in 1..Len(logs["a"].lines) : logs["a"].lines[i] = Line(1, "ResearchAgent failed")
    /\ HoldsSaveOf(1)

\* C10: for a run on an id no earlier run had used, the stream has sent
\* every line of the log, each once and in order, before the sentinel; so
\* once the run is over and the stream is done, the events are the log's
\* lines followed by the sentinel.
StreamDeliversAll ==
    (stream.pc = "done" /\ ~HadPrior(stream.sid)
        /\ \A r \in Runs : Sid(r) = stream.sid /\ Started(r) => run[r].pc = "done") =>
            stream.events = logs[stream.sid].lines \o <<Done>>

---------------------------------------------------------------------------
(* Inputs of the edit-stage check                                          *)

MaxPieces == 4

AllHeadersText ==
    "Abstract:\nIntroduction:\nMethods:\nResults:\nDiscussion:\nConclusion:\nReferences:"

EdPieces == {"Abstract:", AllHeadersText, "x", " ", "\n", "\r", "\t"}

RECURSIVE TextsUpTo(_)
TextsUpTo(n) ==
    IF n = 0 THEN {""}
    ELSE LET P == TextsUpTo(n - 1) IN P \cup {p \o q : p \in P, q \in EdPieces}

\* The application is not running.
AppOff ==
    /\ hasGenai = FALSE
    /\ alive = FALSE
    /\ handlers = {}
    /\ files = [id \in Ids |-> NoFile]
    /\ logs = [id \in Ids |-> NoLog]
    /\ run = [r \in Runs |-> NewRun("", "a", 0, "off")]
    /\ stream = NoStream
    /\ page = NoPage

EdInit == /\ cc = [pc |-> "off"]
          /\ AppOff
          /\ ed \in {[in |-> t, once |-> "", twice |-> "", pc |-> "new"] : t \in TextsUpTo(MaxPieces)}

\* edited = editor.run(draft)
EditOnce ==
    /\ ed.pc = "new"
    /\ ed' = [ed EXCEPT !.once = EditorRun(ed.in), !.pc = "once"]
    /\ UNCHANGED <<cc, appVars>>

\* a second pass over the first pass's output
EditTwice ==
    /\ ed.pc = "once"
    /\ ed' = [ed EXCEPT !.twice = EditorRun(ed.once), !.pc = "twice"]
    /\ UNCHANGED <<cc, appVars>>

NextEdit == EditOnce \/ EditTwice

SpecEdit == EdInit /\ [][NextEdit]_vars

---------------------------------------------------------------------------
(* Inputs of the compaction check                                          *)

MaxPapers == 3

PaperPool ==
    { [title |-> "Gnn", authors |-> "A, B", abstract |-> "road traffic", url |-> "u1"],
      [title |-> "Traffic", authors |-> "C", abstract |-> "", url |-> "u2"],
      [title |-> "zz", authors |-> "", abstract |-> "a long abstract of no use", url |-> "u3"],
      [title |-> "q", authors |-> "", abstract |-> "", url |-> "" ] }

RECURSIVE SeqsUpTo(_, _)
SeqsUpTo(S, n) ==
    IF n = 0 THEN {<<>>}
    ELSE LET P == SeqsUpTo(S, n - 1) IN P \cup {Append(p, x) : p \in P, x \in S}

CcTitles == {"", "GNN traffic", "Traffic  gnn\tTRAFFIC"}

CcBudgets == {0, 36, 37, 44, 45, 54, 81, 82, 99, 110, 150, DefaultMaxChars}

CcInit ==
    /\ ed = [pc |-> "off"]
    /\ AppOff
    /\ cc \in {[title |-> t, papers |-> ps, max_chars |-> m, out |-> "", pc |-> "new"] :
                  t \in CcTitles, ps \in SeqsUpTo(PaperPool, MaxPapers), m \in CcBudgets}

\* context = compact_context(title, papers, max_chars)
CompactOnce ==
    /\ cc.pc = "new"
    /\ cc' = [cc EXCEPT !.out = compact_context(cc.title, cc.papers, cc.max_chars),
                        !.pc = "done"]
    /\ UNCHANGED <<ed, appVars>>

NextCompact == CompactOnce

SpecCompact == CcInit /\ [][NextCompact]_vars

\* The order compaction takes the candidates in: by descending score, equal
\* scores in their original order. order[i] is the index in papers of the i-th.
IsRanking(title, papers, order) ==
    /\ {order[i] : i \in 1..Len(order)} = 1..Len(papers)
    /\ \A i, j \in 1..Len(order) :
         i < j =>
            \/ Score(title, papers[order[i]]) > Score(title, papers[order[j]])
            \/ /\ Score(title, papers[order[i]]) = Score(title, papers[order[j]])
               /\ order[i] < order[j]

RECURSIVE BlocksOf(_, _, _)
BlocksOf(papers, order, k) ==
    IF k = 0 THEN "" ELSE BlocksOf(papers, order, k - 1) \o Chunk(papers[order[k]])

\* C7: the output is the concatenation of the whole blocks of the longest
\* prefix of the ranked candidates that fits the budget: it never exceeds the
\* budget, stops at the first block that does not fit, and is empty when the
\* list is empty or the first block alone exceeds the budget.
CompactIsGreedyPrefix ==
    cc.pc = "done" =>
        LET n == Len(cc.papers) IN
        \E order \in [1..n -> 1..n] :
            /\ IsRanking(cc.title, cc.papers, order)
            /\ \E k \in 0..n :
                 /\ cc.out = BlocksOf(cc.papers, order, k)
                 /\ Len(cc.out) <= cc.max_chars
                 /\ k < n => Len(cc.out) + Len(Chunk(cc.papers[order[k + 1]])) > cc.max_chars
                 /\ (n = 0 \/ Len(Chunk(cc.papers[order[1]])) > cc.max_chars) => cc.out = ""

\* Compaction has stopped at a block that does not fit, after appending one,
\* although a later, smaller block would still have fitted, and the ranking
\* moved a candidate ahead of an earlier one.
CompactIsGreedyPrefixWitness ==
    /\ cc.pc = "done"
    /\ Len(cc.papers) = 3
    /\ cc.out # ""
    /\ Score(cc.title, cc.papers[1]) < Score(cc.title, cc.papers[2])
    /\ cc.out # AccumulateSkipping(SortedPapers(cc.title, cc.papers, <<>>), 1, "", cc.max_chars)

=============================================================================
